---------------------------- MODULE Spec2Model ----------------------------
(***************************************************************************)
(* The wipe worker of wipe.go: the goroutine that main starts once a      *)
(* deletion is confirmed (NewAdvancedWiper, the banner, then              *)
(* SecureDeleteAdvanced = encryptFile, gutmannWipe, wipeMetadata,         *)
(* wipeFreeSpaceNoTemp, secureRemove) and the file it works on.           *)
(*                                                                         *)
(* The file system holds one file (one inode).  names is the set of path  *)
(* names that are links to it; a path is written as the sequence of       *)
(* ".wipe<i>" suffixes appended to the chosen path, so <<>> is <path>,    *)
(* <<0>> is <path>.wipe0 and <<0, 1>> is <path>.wipe0.wipe1.  content is  *)
(* the byte sequence of the inode.  The system calls follow POSIX: a      *)
(* failing call changes nothing (a failing write may have transferred a   *)
(* prefix of its buffer), rename(2) of two links of one file succeeds     *)
(* and does nothing, unlink(2) of a missing name fails.  lseek to 0 and   *)
(* fstat on an open regular file have no failure mode and always succeed. *)
(*                                                                         *)
(* BlockSize is 64*1024 in the program; the model runs the same code on   *)
(* a short block so that whole files fit in a state.  Status lines are    *)
(* kept without their formatted numbers.                                   *)
(***************************************************************************)
EXTENDS Integers, Sequences, FiniteSets, TLC

(* ------------------------------ bounds -------------------------------- *)
BlockSize == 30
MaxPlain == 4
MaxSeed == 1
MaxLinks == 1
MaxPartial == 1
MaxSyncFailures == 1
MaxMetaFailures == 1
MaxDestroyCalls == 2
MaxWipeLen == 2
MaxWipes == 2
MaxLines == 1
MaxQueue == 1

(* ------------------------- program constants --------------------------- *)
KeySize == 32
NonceSize == 12
TagSize == 16
NumPasses == 35
ProgressUpdateInterval == 5
MetaAttempts == 7
RenameAttempts == 3

RandTimes == {"rand1", "rand2"}

(* ----------------------------- pure helpers ---------------------------- *)
Last(s) == s[Len(s)]

Take(s, n) == SubSeq(s, 1, n)

Drop(s, n) == SubSeq(s, n + 1, Len(s))

IsPrefix(s, t) == Len(s) <= Len(t) /\ Take(t, Len(s)) = s

Count(s, x) == Cardinality({k \in 1..Len(s) : s[k] = x})

Range(s) == {s[k] : k \in 1..Len(s)}

\* make([]byte, n): n zero bytes
MakeBytes(n) == [j \in 1..n |-> 0]

\* bytesRepeat: append the pattern until the buffer holds at least size
\* bytes, then cut it to size
RECURSIVE bytesRepeatLoop(_, _, _)
bytesRepeatLoop(res, pattern, size) ==
    IF Len(res) < size THEN bytesRepeatLoop(res \o pattern, pattern, size)
                       ELSE res

bytesRepeat(pattern, size) == Take(bytesRepeatLoop(<<>>, pattern, size), size)

\* what the call-th read of the entropy source yields when it succeeds;
\* seed selects the stream
RandomData(sd, call, size) ==
    [j \in 1..size |-> (sd * (7 * call + j) + sd + 1) % 256]

\* the smaller of two bounds of the model
Least(a, b) == IF a < b THEN a ELSE b

minWhole(a, b) == a

\* min, wipe.go:82
min(a, b) == IF a < b THEN a ELSE b

SealBare(key, nonce, data) ==
    [j \in 1..Len(data) |->
        (data[j] + key[((j - 1) % Len(key)) + 1]
                 + nonce[((j - 1) % Len(nonce)) + 1] + j) % 256]

\* gcm.Seal(nonce, nonce, data, nil): nonce || ciphertext || tag
Seal(key, nonce, data) ==
    nonce
    \o [j \in 1..Len(data) |->
           (data[j] + key[((j - 1) % Len(key)) + 1]
                    + nonce[((j - 1) % Len(nonce)) + 1] + j) % 256]
    \o [t \in 1..TagSize |->
           (key[((t - 1) % Len(key)) + 1] + nonce[((t - 1) % Len(nonce)) + 1]
              + Len(data) + t) % 256]

\* the plaintext of an n-byte file: "abcdefghij..."
PlainText(n) == [j \in 1..n |-> 96 + j]

\* the file content after writing data at offset at
WriteAt(c, at, data) ==
    [j \in 1..(IF at + Len(data) > Len(c) THEN at + Len(data) ELSE Len(c)) |->
        IF j > at /\ j <= at + Len(data) THEN data[j - at] ELSE c[j]]

\* the block p laid end to end from offset 0 over n bytes
Tile(p, n) == [j \in 1..n |-> p[((j - 1) % Len(p)) + 1]]

\* the first 11 entries of the pattern table of gutmannWipe
FixedPatterns ==
    << MakeBytes(BlockSize),
       bytesRepeat(<<255>>, BlockSize),
       bytesRepeat(<<85>>, BlockSize),
       bytesRepeat(<<170>>, BlockSize),
       bytesRepeat(<<146, 73, 36>>, BlockSize \div 3 + 1),
       bytesRepeat(<<73, 36, 146>>, BlockSize \div 3 + 1),
       bytesRepeat(<<36, 146, 73>>, BlockSize \div 3 + 1),
       bytesRepeat(<<0>>, BlockSize),
       bytesRepeat(<<255>>, BlockSize),
       bytesRepeat(<<85>>, BlockSize),
       bytesRepeat(<<170>>, BlockSize) >>

(* --------------------------- decision points --------------------------- *)
EncryptContinues(failed) == FALSE

\* SecureDeleteAdvanced returns at once when encryptFile fails
EncryptFatal(failed) == failed

OverwriteContinues(failed) == FALSE

\* SecureDeleteAdvanced returns at once when gutmannWipe fails
OverwriteFatal(failed) == failed

SyncAborts(failed) == failed

\* a failing file.Sync is only reported
SyncFatal(failed) == FALSE

TruncateAborts(failed) == failed

\* a failing truncation is only reported
TruncateFatal(failed) == FALSE

\* the rename loop breaks at the first failing rename
RenameBreaks(failed) == failed

newPathFromOriginal(p, n) == <<n>>

\* fmt.Sprintf("%s.wipe%d", path, i)
newPath(p, n) == Append(p, n)

FallbackIgnored(failed) == FALSE

\* removing the original path counts as the removal
FallbackOk(failed) == ~failed

\* the original path is tried only when a rename has changed path
TryOriginal(orig, p) == orig # p

KeyAssumed(k) == TRUE

\* Destroy: if w.encryptionKey != nil
KeyHeld(k) == k # "nil"

KeyGenIgnored(failed) == FALSE

\* NewAdvancedWiper panics when the key cannot be drawn
KeyGenFatal(failed) == failed

MetadataAborts(failed) == failed

\* SecureDeleteAdvanced only reports an error of wipeMetadata
MetadataFatal(failed) == FALSE

MetaLoopStops(failed) == failed

\* wipeMetadata: a failed random time stamp does not end the loop (continue)
MetaLoopReturns(failed) == FALSE

MoreToWriteOrEqual(written, size) == written <= size

\* overwritePass: for bytesWritten < fileSize
MoreToWrite(written, size) == written < size

SeekStays(at, offset) == at

\* file.Seek(0, 0)
Seek(at, offset) == offset

ProgressEveryPass(n, total) == TRUE

\* (i+1)%ProgressUpdateInterval == 0 || i == 0 || i == len(patterns)-1
ProgressDue(n, total) ==
    (n + 1) % ProgressUpdateInterval = 0 \/ n = 0 \/ n = total - 1

\* the text of the error SecureDeleteAdvanced wraps around a stage's error
StageError(stage) ==
    CASE stage = "encrypt" -> "Encryption failed"
      [] stage = "overwrite" -> "Overwriting failed"
      [] stage = "remove" -> "Final removal failed"

(* -------------------------------- state -------------------------------- *)
VARIABLES pc, seed, rndCalls, encryptionKey, keyMem, keyDestroys, destroyCalls,
          names, content, mtime,
          encrypted, originalData, patterns, fileSize, i, bytesWritten, pos, path,
          status, progress, result,
          stageLog, opLog, errs, chunks, shortWrite, passLog, removeLog,
          label, uiQueue, worker, sent

keyVars == <<encryptionKey, keyMem, keyDestroys, destroyCalls>>
fsVars == <<names, content, mtime>>
wipeVars == <<encrypted, originalData, patterns, fileSize, i, bytesWritten, pos, path>>
uiVars == <<status, progress>>
sinkVars == <<label, uiQueue, worker, sent>>
logVars == <<stageLog, opLog, errs, chunks, shortWrite, passLog, removeLog>>
vars == <<pc, seed, rndCalls, keyVars, fsVars, wipeVars, uiVars, result, logVars,
          sinkVars>>

Wipes == 1..MaxWipes

originalPath == <<>>

\* the names secureRemove can rename to
RenameTargets == {<<0>>, <<0, 1>>, <<0, 1, 2>>}

\* updateStatus: one more line handed to the status label
Say(lines) == status \o lines

\* a file operation of a stage, recorded once per run of operations
LogOp(stage) ==
    IF opLog # <<>> /\ Last(opLog) = stage THEN opLog ELSE Append(opLog, stage)

\* the status label starts empty, nothing is posted, no wipe is confirmed
SinkInit ==
    /\ label = <<>>
    /\ uiQueue = <<>>
    /\ worker = [w \in Wipes |-> "idle"]
    /\ sent = [w \in Wipes |-> 0]

Init ==
    /\ pc = "NewAdvancedWiper"
    /\ seed \in 0..MaxSeed
    /\ rndCalls = 0
    /\ encryptionKey = "nil"
    /\ keyMem = <<>>
    /\ keyDestroys = 0
    /\ destroyCalls = 0
    /\ \E links \in SUBSET RenameTargets :
          /\ Cardinality(links) <= MaxLinks
          /\ names = {originalPath} \cup links
    /\ \E n \in 0..MaxPlain : content = PlainText(n)
    /\ mtime = "orig"
    /\ encrypted = <<>>
    /\ originalData = <<>>
    /\ patterns = <<>>
    /\ fileSize = 0
    /\ i = 0
    /\ bytesWritten = 0
    /\ pos = 0
    /\ path = originalPath
    /\ status = <<>>
    /\ progress = <<>>
    /\ result = "none"
    /\ stageLog = <<>>
    /\ opLog = <<>>
    /\ errs = {}
    /\ chunks = <<>>
    /\ shortWrite = -1
    /\ passLog = <<>>
    /\ removeLog = <<>>
    /\ SinkInit

(* ------------------------------- main ---------------------------------- *)
\* wiper.Destroy(): the buffer is wiped and released, the field set to nil
Destroy ==
    /\ destroyCalls' = destroyCalls + 1
    /\ IF KeyHeld(encryptionKey)
       THEN /\ keyMem' = MakeBytes(Len(keyMem))
            /\ keyDestroys' = keyDestroys + 1
            /\ encryptionKey' = "nil"
       ELSE UNCHANGED <<encryptionKey, keyMem, keyDestroys>>

\* NewAdvancedWiper: a 32-byte buffer filled from the entropy source, or a
\* panic after destroying the buffer
NewAdvancedWiper ==
    /\ pc = "NewAdvancedWiper"
    /\ rndCalls' = rndCalls + 1
    /\ \/ /\ keyMem' = RandomData(seed, rndCalls, KeySize)
          /\ encryptionKey' = "buf"
          /\ keyDestroys' = keyDestroys
          /\ pc' = "banner"
          /\ UNCHANGED errs
       \/ /\ keyMem' = MakeBytes(KeySize)
          /\ keyDestroys' = keyDestroys + 1
          /\ errs' = errs \cup {"keygen"}
          /\ IF KeyGenFatal(TRUE)
             THEN encryptionKey' = "nil" /\ pc' = "crashed"
             ELSE encryptionKey' = "buf" /\ pc' = "banner"
    /\ UNCHANGED <<seed, sinkVars, destroyCalls, fsVars, wipeVars, uiVars, result,
                   stageLog, opLog, chunks, shortWrite, passLog, removeLog>>

\* main: the start banner, isSSD and the separator line
Banner ==
    /\ pc = "banner"
    /\ status' = Say(<<"Starting secure deletion at", "Assuming flash-based storage",
                       "Software wiping has limited effectiveness", "====">>)
    /\ pc' = "SecureDeleteAdvanced"
    /\ UNCHANGED <<seed, sinkVars, rndCalls, keyVars, fsVars, wipeVars, progress,
                   result, logVars>>

\* SecureDeleteAdvanced, up to the call of encryptFile
SecureDeleteAdvanced ==
    /\ pc = "SecureDeleteAdvanced"
    /\ status' = Say(<<"Starting advanced secure deletion">>)
    /\ pc' = "encryptFile"
    /\ UNCHANGED <<seed, sinkVars, rndCalls, keyVars, fsVars, wipeVars, progress,
                   result, logVars>>

\* SecureDeleteAdvanced returns the stage's error, wrapped
ReturnError(stage) ==
    /\ result' = StageError(stage)
    /\ pc' = "failed"

\* main: the error line, then the deferred Destroy
ReportError ==
    /\ pc = "failed"
    /\ status' = Say(<<"Error: " \o result>>)
    /\ Destroy
    /\ pc' = "done"
    /\ UNCHANGED <<seed, sinkVars, rndCalls, fsVars, wipeVars, progress, result,
                   logVars>>

\* SecureDeleteAdvanced returns nil; main: the closing lines, then the
\* deferred Destroy
ReportSuccess ==
    /\ pc = "completed"
    /\ result' = "nil"
    /\ status' = Say(<<"Advanced secure deletion completed", "====",
                       "Secure deletion completed in", "Finished at", "====",
                       "IMPORTANT: On flash storage", "is the only 100% secure method">>)
    /\ Destroy
    /\ pc' = "done"
    /\ UNCHANGED <<seed, sinkVars, rndCalls, fsVars, wipeVars, progress, logVars>>

\* Destroy called once more on a wiper whose worker has ended
DestroyAgain ==
    /\ pc = "done"
    /\ destroyCalls < MaxDestroyCalls
    /\ Destroy
    /\ UNCHANGED <<pc, seed, sinkVars, rndCalls, fsVars, wipeVars, uiVars, result,
                   logVars>>

(* ----------------------------- encryptFile ----------------------------- *)
\* SecureDeleteAdvanced after encryptFile has returned
AfterEncrypt(failed) ==
    IF EncryptFatal(failed)
    THEN ReturnError("encrypt")
    ELSE pc' = "gutmannWipe" /\ UNCHANGED result

\* encryptFile: Stat, ReadFile, the cipher, the nonce, Seal, WriteFile
\* (open with truncation, one write), Chtimes back to the read time
encryptFile ==
    /\ pc = "encryptFile"
    /\ status' = Say(<<"Encrypting file before deletion">>)
    /\ stageLog' = Append(stageLog, "encrypt")
    /\ opLog' = LogOp("encrypt")
    /\ LET nonce == RandomData(seed, rndCalls, NonceSize)
           sealed == Seal(keyMem, nonce, content)  \* content is what ReadFile returns
           fail == /\ errs' = errs \cup {"encrypt"}
                   /\ AfterEncrypt(TRUE)
       IN  \/ \* os.Stat or os.ReadFile fails
              /\ fail
              /\ UNCHANGED <<rndCalls, fsVars, encrypted, originalData>>
           \/ \* aes.NewCipher rejects the key
              /\ Len(keyMem) \notin {16, 24, 32}
              /\ fail
              /\ originalData' = content
              /\ UNCHANGED <<rndCalls, fsVars, encrypted>>
           \/ \* the nonce cannot be drawn
              /\ Len(keyMem) \in {16, 24, 32}
              /\ fail
              /\ rndCalls' = rndCalls + 1
              /\ originalData' = content
              /\ UNCHANGED <<fsVars, encrypted>>
           \/ \* os.WriteFile cannot open the file
              /\ Len(keyMem) \in {16, 24, 32}
              /\ fail
              /\ rndCalls' = rndCalls + 1
              /\ originalData' = content
              /\ encrypted' = sealed
              /\ UNCHANGED fsVars
           \/ \* os.WriteFile: the file is truncated, the write stops after k bytes
              /\ Len(keyMem) \in {16, 24, 32}
              /\ \E k \in 0..Least(MaxPartial, Len(sealed) - 1) :
                    content' = Take(sealed, k)
              /\ fail
              /\ rndCalls' = rndCalls + 1
              /\ originalData' = content
              /\ encrypted' = sealed
              /\ mtime' = "now"
              /\ UNCHANGED names
           \/ \* the file is rewritten, os.Chtimes fails
              /\ Len(keyMem) \in {16, 24, 32}
              /\ content' = sealed
              /\ fail
              /\ rndCalls' = rndCalls + 1
              /\ originalData' = content
              /\ encrypted' = sealed
              /\ mtime' = "now"
              /\ UNCHANGED names
           \/ \* success
              /\ Len(keyMem) \in {16, 24, 32}
              /\ content' = sealed
              /\ mtime' = mtime
              /\ rndCalls' = rndCalls + 1
              /\ originalData' = content
              /\ encrypted' = sealed
              /\ errs' = errs
              /\ AfterEncrypt(FALSE)
              /\ UNCHANGED names
    /\ UNCHANGED <<seed, sinkVars, keyVars, patterns, fileSize, i, bytesWritten, pos,
                   path, progress, chunks, shortWrite, passLog, removeLog>>

(* ----------------------------- gutmannWipe ----------------------------- *)
\* SecureDeleteAdvanced after gutmannWipe has returned
AfterOverwrite(failed) ==
    IF OverwriteFatal(failed)
    THEN ReturnError("overwrite")
    ELSE pc' = "wipeMetadata" /\ UNCHANGED result

\* gutmannWipe: OpenFile, Stat, the two status lines, the 11 fixed patterns
gutmannWipe ==
    /\ pc = "gutmannWipe"
    /\ stageLog' = Append(stageLog, "overwrite")
    /\ opLog' = LogOp("overwrite")
    /\ \/ \* os.OpenFile fails
          /\ errs' = errs \cup {"overwrite"}
          /\ AfterOverwrite(TRUE)
          /\ UNCHANGED <<patterns, fileSize, pos, status>>
       \/ /\ fileSize' = Len(content)
          /\ pos' = 0
          /\ status' = Say(<<"File size", "Using blocks">>)
          /\ patterns' = FixedPatterns
          /\ pc' = "randomPatterns"
          /\ UNCHANGED <<errs, result>>
    /\ UNCHANGED <<seed, sinkVars, rndCalls, keyVars, fsVars, encrypted, originalData,
                   i, bytesWritten, path, progress, chunks, shortWrite, passLog,
                   removeLog>>

\* for len(patterns) < 35: one more block from randomBytes, which panics
\* when the entropy source fails; the panic runs the deferred Destroy and
\* ends the process
randomBytes ==
    /\ pc = "randomPatterns"
    /\ Len(patterns) < NumPasses
    /\ rndCalls' = rndCalls + 1
    /\ \/ /\ patterns' = Append(patterns, RandomData(seed, rndCalls, BlockSize))
          /\ pc' = "randomPatterns"
          /\ UNCHANGED keyVars
       \/ /\ Destroy
          /\ pc' = "crashed"
          /\ UNCHANGED patterns
    /\ UNCHANGED <<seed, sinkVars, fsVars, encrypted, originalData, fileSize, i,
                   bytesWritten, pos, path, uiVars, result, logVars>>

\* the table is complete: the pass loop starts
startPasses ==
    /\ pc = "randomPatterns"
    /\ ~(Len(patterns) < NumPasses)
    /\ status' = Say(<<"Starting Gutmann 35-pass wiping procedure">>)
    /\ i' = 0
    /\ pc' = "overwritePass"
    /\ UNCHANGED <<seed, sinkVars, rndCalls, keyVars, fsVars, encrypted, originalData,
                   patterns, fileSize, bytesWritten, pos, path, progress, result,
                   logVars>>

\* overwritePass: the seek to the start of the file
overwritePass ==
    /\ pc = "overwritePass"
    /\ pos' = Seek(pos, 0)
    /\ bytesWritten' = 0
    /\ chunks' = <<>>
    /\ opLog' = LogOp("overwrite")
    /\ pc' = "write"
    /\ UNCHANGED <<seed, sinkVars, rndCalls, keyVars, fsVars, encrypted, originalData,
                   patterns, fileSize, i, path, uiVars, result, stageLog, errs,
                   shortWrite, passLog, removeLog>>

\* overwritePass: one turn of the write loop
writeChunk ==
    /\ pc = "write"
    /\ MoreToWrite(bytesWritten, fileSize)
    /\ LET pattern == patterns[i + 1]
           writeSize == min(Len(pattern), fileSize - bytesWritten)
       IN  \/ /\ content' = WriteAt(content, pos, Take(pattern, writeSize))
              /\ pos' = pos + writeSize
              /\ bytesWritten' = bytesWritten + writeSize
              /\ chunks' = Append(chunks, <<pos, writeSize>>)
              /\ mtime' = "now"
              /\ pc' = "write"
              /\ UNCHANGED <<result, errs, shortWrite>>
           \/ \* file.Write fails after k bytes: "Pass i+1 failed"
              \E k \in 0..Least(MaxPartial, writeSize - 1) :
                 /\ content' = WriteAt(content, pos, Take(pattern, k))
                 /\ pos' = pos + k
                 /\ mtime' = IF k > 0 THEN "now" ELSE mtime
                 /\ shortWrite' = k
                 /\ errs' = errs \cup {"overwrite"}
                 /\ AfterOverwrite(TRUE)
                 /\ UNCHANGED <<bytesWritten, chunks>>
    /\ UNCHANGED <<seed, sinkVars, rndCalls, keyVars, names, encrypted, originalData,
                   patterns, fileSize, i, path, uiVars, stageLog, opLog, passLog,
                   removeLog>>

\* the pass has written fileSize bytes: file.Sync, the progress line when
\* due, then the next pass
syncPass ==
    /\ pc = "write"
    /\ ~MoreToWrite(bytesWritten, fileSize)
    /\ passLog' = Append(passLog, <<i + 1, chunks>>)
    /\ \E failed \in BOOLEAN :
          /\ failed => Count(status, "Sync warning") < MaxSyncFailures
          /\ IF SyncFatal(failed)
             THEN /\ errs' = errs \cup {"overwrite"}
                  /\ AfterOverwrite(TRUE)
                  /\ UNCHANGED <<i, uiVars>>
             ELSE /\ status' = IF failed THEN Say(<<"Sync warning">>) ELSE status
                  /\ progress' = IF ProgressDue(i, Len(patterns))
                                 THEN <<((i + 1) * 100) \div Len(patterns), i + 1>>
                                 ELSE progress
                  /\ i' = i + 1
                  /\ pc' = IF i + 1 < Len(patterns) THEN "overwritePass"
                                                   ELSE "passesDone"
                  /\ UNCHANGED <<errs, result>>
    /\ UNCHANGED <<seed, sinkVars, rndCalls, keyVars, fsVars, encrypted, originalData,
                   patterns, fileSize, bytesWritten, pos, path, stageLog, opLog,
                   chunks, shortWrite, removeLog>>

\* gutmannWipe after the last pass: the progress line is cleared
passesDone ==
    /\ pc = "passesDone"
    /\ progress' = <<>>
    /\ AfterOverwrite(FALSE)
    /\ UNCHANGED <<seed, sinkVars, rndCalls, keyVars, fsVars, wipeVars, status,
                   logVars>>

(* ---------------------------- wipeMetadata ----------------------------- *)
\* wipeMetadata: the status line; the loop starts
wipeMetadata ==
    /\ pc = "wipeMetadata"
    /\ status' = Say(<<"Obfuscating metadata">>)
    /\ stageLog' = Append(stageLog, "metadata")
    /\ i' = 0
    /\ pc' = "chtimes"
    /\ UNCHANGED <<seed, sinkVars, rndCalls, keyVars, fsVars, encrypted, originalData,
                   patterns, fileSize, bytesWritten, pos, path, progress, result,
                   opLog, errs, chunks, shortWrite, passLog, removeLog>>

\* SecureDeleteAdvanced after wipeMetadata: an error is reported in the
\* status and the pipeline goes on
AfterMetadata(failed) ==
    IF MetadataFatal(failed)
    THEN /\ result' = "Metadata wiping failed"
         /\ pc' = "failed"
         /\ UNCHANGED status
    ELSE /\ pc' = "wipeFreeSpace"
         /\ status' = IF failed THEN Say(<<"Metadata wiping failed">>) ELSE status
         /\ UNCHANGED result

\* one of the 7 random time stamps; a failure is reported and the loop goes on
chtimesRandom ==
    /\ pc = "chtimes"
    /\ i < MetaAttempts
    /\ opLog' = LogOp("metadata")
    /\ \/ /\ mtime' \in RandTimes
          /\ i' = i + 1
          /\ UNCHANGED <<pc, status, result, errs>>
       \/ /\ Count(status, "Metadata change failed") < MaxMetaFailures
          /\ UNCHANGED mtime
          /\ IF MetaLoopReturns(TRUE)
             THEN /\ errs' = errs \cup {"metadata"}
                  /\ AfterMetadata(TRUE)
                  /\ UNCHANGED i
             ELSE /\ status' = Say(<<"Metadata change failed">>)
                  /\ i' = i + 1
                  /\ UNCHANGED <<pc, result, errs>>
    /\ UNCHANGED <<seed, sinkVars, rndCalls, keyVars, names, content, encrypted,
                   originalData, patterns, fileSize, bytesWritten, pos, path, progress,
                   stageLog, chunks, shortWrite, passLog, removeLog>>

\* the 8th time stamp, the current time; wipeMetadata returns its error
chtimesNow ==
    /\ pc = "chtimes"
    /\ ~(i < MetaAttempts)
    /\ opLog' = LogOp("metadata")
    /\ \/ /\ mtime' = "now"
          /\ AfterMetadata(FALSE)
          /\ UNCHANGED errs
       \/ /\ errs' = errs \cup {"metadata"}
          /\ AfterMetadata(TRUE)
          /\ UNCHANGED mtime
    /\ UNCHANGED <<seed, sinkVars, rndCalls, keyVars, names, content, wipeVars,
                   progress, stageLog, chunks, shortWrite, passLog, removeLog>>

(* ------------------------- wipeFreeSpaceNoTemp ------------------------- *)
\* wipeFreeSpaceNoTemp and platformSpecificFreeSpaceWipe: two status lines,
\* no file operation, never an error
wipeFreeSpaceNoTemp ==
    /\ pc = "wipeFreeSpace"
    /\ status' = Say(<<"Wiping free space", "Using platform-optimized free space wiping">>)
    /\ stageLog' = Append(stageLog, "freespace")
    /\ pc' = "secureRemove"
    /\ UNCHANGED <<seed, sinkVars, rndCalls, keyVars, fsVars, wipeVars, progress,
                   result, opLog, errs, chunks, shortWrite, passLog, removeLog>>

(* ----------------------------- secureRemove ---------------------------- *)
\* secureRemove: the status line; originalPath := path
secureRemove ==
    /\ pc = "secureRemove"
    /\ status' = Say(<<"Performing final secure removal">>)
    /\ stageLog' = Append(stageLog, "remove")
    /\ path' = originalPath
    /\ i' = 0
    /\ pc' = "rename"
    /\ UNCHANGED <<seed, sinkVars, rndCalls, keyVars, fsVars, encrypted, originalData,
                   patterns, fileSize, bytesWritten, pos, progress, result, opLog,
                   errs, chunks, shortWrite, passLog, removeLog>>

\* one turn of the rename loop
renameStep ==
    /\ pc = "rename"
    /\ i < RenameAttempts
    /\ opLog' = LogOp("remove")
    /\ LET target == newPath(path, i)
       IN  \/ /\ path \in names
              /\ names' = IF target \in names THEN names
                          ELSE (names \ {path}) \cup {target}
              /\ path' = target
              /\ i' = i + 1
              /\ removeLog' = Append(removeLog, <<"rename", target, TRUE>>)
              /\ pc' = IF i + 1 < RenameAttempts THEN "rename" ELSE "truncate"
              /\ UNCHANGED status
           \/ /\ status' = Say(<<"Rename attempt failed">>)
              /\ removeLog' = Append(removeLog, <<"rename", target, FALSE>>)
              /\ IF RenameBreaks(TRUE)
                 THEN pc' = "truncate" /\ UNCHANGED i
                 ELSE /\ i' = i + 1
                      /\ pc' = IF i + 1 < RenameAttempts THEN "rename" ELSE "truncate"
              /\ UNCHANGED <<names, path>>
    /\ UNCHANGED <<seed, sinkVars, rndCalls, keyVars, content, mtime, encrypted,
                   originalData, patterns, fileSize, bytesWritten, pos, progress,
                   result, stageLog, errs, chunks, shortWrite, passLog>>

\* SecureDeleteAdvanced after secureRemove has failed
RemoveFailed ==
    /\ errs' = errs \cup {"remove"}
    /\ ReturnError("remove")

\* the file at path is opened with O_TRUNC and closed
truncateStep ==
    /\ pc = "truncate"
    /\ opLog' = LogOp("remove")
    /\ \/ /\ path \in names
          /\ content' = <<>>
          /\ mtime' = "now"
          /\ removeLog' = Append(removeLog, <<"truncate", path, TRUE>>)
          /\ pc' = "remove"
          /\ UNCHANGED <<status, errs, result>>
       \/ /\ status' = Say(<<"Truncation failed">>)
          /\ removeLog' = Append(removeLog, <<"truncate", path, FALSE>>)
          /\ IF TruncateFatal(TRUE)
             THEN RemoveFailed
             ELSE pc' = "remove" /\ UNCHANGED <<errs, result>>
          /\ UNCHANGED <<content, mtime>>
    /\ UNCHANGED <<seed, sinkVars, rndCalls, keyVars, names, wipeVars, progress,
                   stageLog, chunks, shortWrite, passLog>>

\* os.Remove(path)
removeStep ==
    /\ pc = "remove"
    /\ opLog' = LogOp("remove")
    /\ \/ /\ path \in names
          /\ names' = names \ {path}
          /\ removeLog' = Append(removeLog, <<"remove", path, TRUE>>)
          /\ pc' = "completed"
          /\ UNCHANGED <<errs, result>>
       \/ /\ removeLog' = Append(removeLog, <<"remove", path, FALSE>>)
          /\ IF TryOriginal(originalPath, path)
             THEN pc' = "removeOriginal" /\ UNCHANGED <<errs, result>>
             ELSE RemoveFailed
          /\ UNCHANGED names
    /\ UNCHANGED <<seed, sinkVars, rndCalls, keyVars, content, mtime, wipeVars, uiVars,
                   stageLog, chunks, shortWrite, passLog>>

\* os.Remove(originalPath) after os.Remove(path) has failed
removeOriginal ==
    /\ pc = "removeOriginal"
    /\ opLog' = LogOp("remove")
    /\ \E failed \in BOOLEAN :
          /\ ~failed => originalPath \in names
          /\ names' = IF failed THEN names ELSE names \ {originalPath}
          /\ removeLog' = Append(removeLog, <<"remove", originalPath, ~failed>>)
          /\ IF FallbackOk(failed)
             THEN /\ status' = Say(<<"Removed original file after rename failure">>)
                  /\ pc' = "completed"
                  /\ UNCHANGED <<errs, result>>
             ELSE /\ RemoveFailed
                  /\ UNCHANGED status
    /\ UNCHANGED <<seed, sinkVars, rndCalls, keyVars, content, mtime, wipeVars,
                   progress, stageLog, chunks, shortWrite, passLog>>

(* ---------------------------- specification ---------------------------- *)
Next ==
    \/ NewAdvancedWiper
    \/ Banner
    \/ SecureDeleteAdvanced
    \/ encryptFile
    \/ gutmannWipe
    \/ randomBytes
    \/ startPasses
    \/ overwritePass
    \/ writeChunk
    \/ syncPass
    \/ passesDone
    \/ wipeMetadata
    \/ chtimesRandom
    \/ chtimesNow
    \/ wipeFreeSpaceNoTemp
    \/ secureRemove
    \/ renameStep
    \/ truncateStep
    \/ removeStep
    \/ removeOriginal
    \/ ReportError
    \/ ReportSuccess

Spec == Init /\ [][Next]_vars

\* gutmannWipe called on a file of any small size, the empty file included
InitWipe ==
    /\ pc = "gutmannWipe"
    /\ seed \in 0..MaxSeed
    /\ rndCalls = 1
    /\ encryptionKey = "buf"
    /\ keyMem = RandomData(seed, 0, KeySize)
    /\ keyDestroys = 0
    /\ destroyCalls = 0
    /\ names = {originalPath}
    /\ \E n \in 0..MaxWipeLen : content = PlainText(n)
    /\ mtime = "orig"
    /\ encrypted = <<>>
    /\ originalData = <<>>
    /\ patterns = <<>>
    /\ fileSize = 0
    /\ i = 0
    /\ bytesWritten = 0
    /\ pos = 0
    /\ path = originalPath
    /\ status = <<>>
    /\ progress = <<>>
    /\ result = "none"
    /\ stageLog = <<>>
    /\ opLog = <<>>
    /\ errs = {}
    /\ chunks = <<>>
    /\ shortWrite = -1
    /\ passLog = <<>>
    /\ removeLog = <<>>
    /\ SinkInit

NextWipe ==
    \/ gutmannWipe
    \/ randomBytes
    \/ startPasses
    \/ overwritePass
    \/ writeChunk
    \/ syncPass
    \/ passesDone

SpecWipe == InitWipe /\ [][NextWipe]_vars

(* ---------------------------- the status label ------------------------ *)
workVars == <<pc, seed, rndCalls, keyVars, fsVars, wipeVars, uiVars, result, logVars>>

\* what a function handed to fyne.Do does to the text of the status label
Run(fn, text) ==
    CASE fn[1] = "append" -> Append(text, fn[2])
      [] fn[1] = "set" -> fn[2]

\* fyne.Do called on the UI thread: the function runs at once, or is
\* queued behind the functions already posted
DoFromMain(fn) ==
    \/ label' = Run(fn, label) /\ UNCHANGED uiQueue
    \/ /\ Len(uiQueue) < MaxQueue
       /\ uiQueue' = Append(uiQueue, fn)
       /\ UNCHANGED label

\* the file dialog's callback ends with an error text in the status label
selectFails ==
    /\ DoFromMain(<<"set", <<<<0, 0>>>>>>)
    /\ UNCHANGED <<workVars, worker, sent>>

\* the confirmation callback: the status label is cleared, the worker
\* goroutine is started; nothing looks at a wipe that is still running
confirm ==
    /\ \E w \in Wipes :
          /\ worker[w] = "idle"
          /\ \A v \in Wipes : v < w => worker[v] # "idle"
          /\ worker' = [worker EXCEPT ![w] = "running"]
    /\ DoFromMain(<<"set", <<>>>>)
    /\ UNCHANGED <<workVars, sent>>

\* updateStatus called by a worker: its next line is posted with fyne.Do
updateStatus ==
    /\ \E w \in Wipes :
          /\ worker[w] = "running"
          /\ sent[w] < MaxLines
          /\ sent' = [sent EXCEPT ![w] = sent[w] + 1]
          /\ uiQueue' = Append(uiQueue, <<"append", <<w, sent[w] + 1>>>>)
    /\ UNCHANGED <<workVars, label, worker>>

\* the worker goroutine returns
workerEnds ==
    /\ \E w \in Wipes :
          /\ worker[w] = "running"
          /\ sent[w] > 0
          /\ worker' = [worker EXCEPT ![w] = "ended"]
    /\ UNCHANGED <<workVars, label, uiQueue, sent>>

\* the UI thread runs the function at the head of the queue
runPosted ==
    /\ uiQueue # <<>>
    /\ label' = Run(Head(uiQueue), label)
    /\ uiQueue' = Tail(uiQueue)
    /\ UNCHANGED <<workVars, worker, sent>>

NextUI ==
    \/ selectFails
    \/ confirm
    \/ updateStatus
    \/ workerEnds
    \/ runPosted

\* the window is shown, no wipe has been confirmed yet
InitUI ==
    /\ pc = "NewAdvancedWiper"
    /\ seed = 0
    /\ rndCalls = 0
    /\ encryptionKey = "nil"
    /\ keyMem = <<>>
    /\ keyDestroys = 0
    /\ destroyCalls = 0
    /\ names = {originalPath}
    /\ content = <<>>
    /\ mtime = "orig"
    /\ encrypted = <<>>
    /\ originalData = <<>>
    /\ patterns = <<>>
    /\ fileSize = 0
    /\ i = 0
    /\ bytesWritten = 0
    /\ pos = 0
    /\ path = originalPath
    /\ status = <<>>
    /\ progress = <<>>
    /\ result = "none"
    /\ stageLog = <<>>
    /\ opLog = <<>>
    /\ errs = {}
    /\ chunks = <<>>
    /\ shortWrite = -1
    /\ passLog = <<>>
    /\ removeLog = <<>>
    /\ SinkInit

SpecUI == InitUI /\ [][NextUI]_vars

\* the worker, and a caller that calls Destroy again afterwards
NextDestroy == Next \/ DestroyAgain

SpecDestroy == Init /\ [][NextDestroy]_vars

TypeOK ==
    /\ names \subseteq ({originalPath} \cup RenameTargets \cup {<<1>>, <<2>>})
    /\ result \in {"none", "nil", "Encryption failed", "Overwriting failed",
                   "Final removal failed"}

(* ------------------------------ reading the logs ----------------------- *)
IsRename(e) == e[1] = "rename"

IsTruncate(e) == e[1] = "truncate"

IsRemove(e) == e[1] = "remove"

Renames == SelectSeq(removeLog, IsRename)

Truncates == SelectSeq(removeLog, IsTruncate)

Removes == SelectSeq(removeLog, IsRemove)

AllRenamed ==
    /\ Len(Renames) = RenameAttempts
    /\ \A k \in 1..Len(Renames) : Renames[k][3]

FirstRenameFailed == Renames # <<>> /\ ~Renames[1][3]

\* the path the successful renames have led to
RECURSIVE ReachedFrom(_, _)
ReachedFrom(p, rs) ==
    IF rs = <<>> THEN p
    ELSE ReachedFrom(IF rs[1][3] THEN rs[1][2] ELSE p, Tail(rs))

Reached == ReachedFrom(originalPath, Renames)

RECURSIVE SumLens(_)
SumLens(cs) == IF cs = <<>> THEN 0 ELSE cs[1][2] + SumLens(Tail(cs))

Terminated == pc \in {"done", "crashed"}

StageOrder == <<"encrypt", "overwrite", "metadata", "freespace", "remove">>

ErrorLines ==
    Count(status, "Error: Encryption failed")
    + Count(status, "Error: Overwriting failed")
    + Count(status, "Error: Final removal failed")

SuccessLines == Count(status, "Secure deletion completed in")

\* the file as pass n+1 (n = i, counted from 0) found it
Before(n) == IF n = 0 THEN encrypted ELSE Tile(patterns[n], fileSize)

(* -------------------------------- claims ------------------------------- *)
\* C1: whenever SecureDeleteAdvanced has returned nil, whatever the rename,
\* truncate and unlink outcomes were, the original path does not exist any
\* more and neither does any name a rename of this run has given the file
C1_NothingRemains ==
    (pc = "done" /\ result = "nil") =>
       /\ originalPath \notin names
       /\ \A k \in 1..Len(Renames) : Renames[k][3] => Renames[k][2] \notin names

\* C2 as stated: after 3 successful renames the rename targets were
\* <path>.wipe0, <path>.wipe1, <path>.wipe2, each formed from the original
\* path, and truncate and the final unlink get <path>.wipe2; after a failed
\* first rename the final unlink gets the original path
C2_TargetsFromOriginal ==
    /\ AllRenamed =>
          /\ \A k \in 1..RenameAttempts : Renames[k][2] = <<k - 1>>
          /\ \A k \in 1..Len(Truncates) : Truncates[k][2] = <<RenameAttempts - 1>>
          /\ Removes # <<>> => Removes[1][2] = <<RenameAttempts - 1>>
    /\ (FirstRenameFailed /\ Removes # <<>>) => Removes[1][2] = originalPath

\* C2 amended: each rename target is formed from the previous target, so
\* after 3 successful renames the targets were <path>.wipe0,
\* <path>.wipe0.wipe1, <path>.wipe0.wipe1.wipe2 and truncate and the final
\* unlink get <path>.wipe0.wipe1.wipe2; after a failed first rename the
\* final unlink gets the original path
C2_TargetsChained ==
    /\ AllRenamed =>
          /\ \A k \in 1..RenameAttempts : Renames[k][2] = [j \in 1..k |-> j - 1]
          /\ \A k \in 1..Len(Truncates) :
                Truncates[k][2] = [j \in 1..RenameAttempts |-> j - 1]
          /\ Removes # <<>> => Removes[1][2] = [j \in 1..RenameAttempts |-> j - 1]
    /\ (FirstRenameFailed /\ Removes # <<>>) => Removes[1][2] = originalPath

C2_Witness ==
    /\ AllRenamed
    /\ Truncates # <<>>
    /\ Removes # <<>>
    /\ Removes[1][2] = <<0, 1, 2>>

\* C3: when the unlink of the renamed path has failed, at least one rename
\* had succeeded and the unlink of the original path has succeeded,
\* secureRemove returns nil and the wipe reports success, no removal error
C3_FallbackIsSuccess ==
    (/\ Len(Removes) = 2
     /\ ~Removes[1][3]
     /\ Removes[1][2] # originalPath
     /\ \E k \in 1..Len(Renames) : Renames[k][3]
     /\ Removes[2][2] = originalPath
     /\ Removes[2][3])
    => /\ pc \in {"completed", "done"}
       /\ "remove" \notin errs
       /\ result \in {"none", "nil"}
       /\ pc = "done" => (result = "nil" /\ SuccessLines = 1 /\ ErrorLines = 0)

C3_Witness ==
    /\ pc = "done"
    /\ result = "nil"
    /\ Len(Removes) = 2
    /\ ~Removes[1][3]
    /\ Removes[2][3]

\* C4: secureRemove returns an error only if the unlink of the active path
\* and (when it differs) the unlink of the original path have both failed;
\* failed renames and a failed truncate alone give no error, and after
\* them the unlink is attempted on the last path a rename reached
C4_ErrorOnlyFromUnlink ==
    /\ "remove" \in errs =>
          /\ Removes # <<>>
          /\ \A k \in 1..Len(Removes) : ~Removes[k][3]
          /\ Removes[1][2] = Reached
          /\ Reached # originalPath =>
                (Len(Removes) = 2 /\ Removes[2][2] = originalPath)
    /\ (pc \in {"removeOriginal", "completed", "failed", "done"}
          /\ "remove" \in {stageLog[k] : k \in 1..Len(stageLog)}) =>
          /\ Removes # <<>>
          /\ Removes[1][2] = Reached
    /\ Removes # <<>> => Truncates # <<>>

C4_Witness ==
    /\ pc = "done"
    /\ result = "nil"
    /\ \E k \in 1..Len(Renames) : ~Renames[k][3]
    /\ \E k \in 1..Len(Renames) : Renames[k][3]
    /\ Truncates # <<>> /\ ~Truncates[1][3]

\* C5: once SecureDeleteAdvanced has been called and the worker has ended,
\* the caller has seen exactly one terminal outcome: the success, or one
\* error that names the stage that failed first (never both, never none)
C5_OneTerminalOutcome ==
    (Terminated /\ stageLog # <<>>) =>
       /\ SuccessLines + ErrorLines = 1
       /\ SuccessLines = 1 => (result = "nil" /\ errs \cap {"encrypt", "overwrite", "remove"} = {})
       /\ ErrorLines = 1 =>
             /\ result = StageError(Last(stageLog))
             /\ Count(status, "Error: " \o result) = 1
             /\ errs \cap {"encrypt", "overwrite", "remove"} = {Last(stageLog)}

\* C6: the stages run in the order encrypt, overwrite, metadata scrub,
\* free-space wipe, remove, and no stage runs or touches the file after
\* encrypt, overwrite or remove has failed
C6_StagesInOrder ==
    /\ IsPrefix(stageLog, StageOrder)
    /\ IsPrefix(opLog, <<"encrypt", "overwrite", "metadata", "remove">>)
    /\ \A k \in 1..Len(opLog) : \E j \in 1..Len(stageLog) : stageLog[j] = opLog[k]
    /\ \A k \in 1..Len(stageLog) :
          stageLog[k] \in errs \cap {"encrypt", "overwrite", "remove"} =>
             /\ Len(stageLog) = k
             /\ Last(opLog) = stageLog[k]
             /\ pc \in {"failed", "done"}

C6_Witness ==
    /\ pc = "done"
    /\ result = "Overwriting failed"
    /\ shortWrite >= 0
    /\ stageLog = <<"encrypt", "overwrite">>
    /\ opLog = <<"encrypt", "overwrite">>

\* C7 as stated: after a failed write in pass i the file holds pattern i-1
\* laid over the whole file (the ciphertext when i = 1)
C7_PreviousPatternWhole ==
    shortWrite >= 0 => content = Before(i)

\* C7 amended: after a failed write in pass i the bytes that pass i has
\* already written (its whole chunks and the part of the failing chunk that
\* got through) hold pattern i, and every byte after them holds what pass
\* i-1 left (pattern i-1, the ciphertext when i = 1); the file holds
\* pattern i-1 throughout only if the write failed before any byte of
\* pass i was written
C7_PrefixOverwritten ==
    shortWrite >= 0 =>
       LET n == bytesWritten + shortWrite
       IN  /\ n < fileSize
           /\ content = Take(Tile(patterns[i + 1], fileSize), n) \o Drop(Before(i), n)
           /\ n = 0 => content = Before(i)

C7_Witness ==
    /\ shortWrite >= 0
    /\ i >= 1
    /\ bytesWritten > 0
    /\ content # Before(i)
    /\ content # Tile(patterns[i + 1], fileSize)

\* C8: a failing sync never aborts gutmannWipe: the passes run in table
\* order 1..35, a pass starts (at offset 0) only when every pass before it
\* has written fileSize bytes, only a failed write ends the loop early, and
\* without one gutmannWipe returns nil after pass 35
C8_SyncFailureTolerated ==
    /\ \A k \in 1..Len(passLog) :
          /\ passLog[k][1] = k
          /\ SumLens(passLog[k][2]) = fileSize
          /\ passLog[k][2] # <<>> => passLog[k][2][1][1] = 0
    /\ pc \in {"overwritePass", "write"} => Len(passLog) = i
    /\ pc = "write" => pos = bytesWritten
    /\ ("overwrite" \in errs /\ patterns # <<>>) => shortWrite >= 0
    /\ (\E k \in 1..Len(stageLog) : stageLog[k] = "metadata") =>
          (Len(passLog) = NumPasses /\ "overwrite" \notin errs)

C8_Witness ==
    /\ Count(status, "Sync warning") > 0
    /\ stageLog = <<"encrypt", "overwrite", "metadata">>
    /\ Len(passLog) = NumPasses

\* C9: a pass that ends without a write error has written exactly fileSize
\* bytes, from offset 0 on without gap, every chunk a whole pattern except
\* the last, which is cut to the bytes that remained
C9_PassWritesFileSize ==
    /\ \A k \in 1..Len(passLog) :
          LET cs == passLog[k][2]
              plen == Len(patterns[k])
          IN  /\ SumLens(cs) = fileSize
              /\ \A c \in 1..Len(cs) :
                    /\ cs[c][1] = (c - 1) * plen
                    /\ cs[c][2] = IF c < Len(cs) THEN plen ELSE fileSize - (c - 1) * plen
                    /\ cs[c][2] > 0 /\ cs[c][2] <= plen
    /\ (pc = "write" /\ ~(bytesWritten < fileSize)) =>
          /\ bytesWritten = fileSize
          /\ pos = fileSize
          /\ Len(content) = fileSize
          /\ content = Tile(patterns[i + 1], fileSize)

C9_Witness ==
    /\ fileSize < BlockSize
    /\ Len(passLog) >= 5
    /\ Len(passLog[1][2]) = 1
    /\ passLog[1][2][1][2] = fileSize
    /\ Len(passLog[5][2]) > 2

\* C10: the pattern table of a wipe has exactly 35 entries and every entry,
\* the three rotating 3-byte patterns included, is BlockSize bytes long
C10_PatternTableShape ==
    pc \in {"overwritePass", "write", "passesDone"} =>
       /\ Len(patterns) = NumPasses
       /\ \A k \in 1..Len(patterns) : Len(patterns[k]) = BlockSize

(* ------------------------------- C11 ----------------------------------- *)

KeyZeroized == keyMem = MakeBytes(KeySize) /\ encryptionKey = "nil"

\* C11: the 32-byte key is zeroized and released exactly once on every exit
\* path of the worker (success, fatal error of a stage, panic): it is live
\* while the worker runs, it is destroyed once the worker has ended, and a
\* call of Destroy after the first one changes nothing
C11_KeyDestroyedOnce ==
    /\ [](/\ keyDestroys <= 1
          /\ Terminated => (keyDestroys = 1 /\ KeyZeroized)
          /\ pc \notin {"NewAdvancedWiper", "done", "crashed"} =>
                /\ keyDestroys = 0
                /\ encryptionKey = "buf"
                /\ Len(keyMem) = KeySize
                /\ keyMem # MakeBytes(KeySize))
    /\ [][(destroyCalls >= 1 /\ destroyCalls' > destroyCalls) =>
             UNCHANGED <<encryptionKey, keyMem, keyDestroys>>]_vars

C11_Witness ==
    /\ pc = "done"
    /\ destroyCalls = 2
    /\ keyDestroys = 1
    /\ KeyZeroized

(* ------------------------------- C12 ----------------------------------- *)

\* C12: when the key cannot be generated the operation is aborted before
\* any mutation of the target file: the failing step leaves the file's
\* content, size, timestamp and names as they were and destroys the key
\* buffer, no stage is entered, and nothing touches the file afterwards
C12_KeyGenFailureAborts ==
    [][/\ ("keygen" \notin errs /\ "keygen" \in errs') =>
             /\ pc' = "crashed"
             /\ UNCHANGED <<names, content, mtime>>
             /\ Len(content') = Len(content)
             /\ stageLog' = <<>> /\ opLog' = <<>> /\ removeLog' = <<>>
             /\ keyMem' = MakeBytes(KeySize)
             /\ encryptionKey' = "nil"
             /\ keyDestroys' = 1
       /\ "keygen" \in errs => UNCHANGED <<pc, names, content, mtime>>]_vars

C12_Witness ==
    /\ pc = "crashed"
    /\ "keygen" \in errs
    /\ stageLog = <<>>
    /\ content = PlainText(MaxPlain)
    /\ mtime = "orig"
    /\ originalPath \in names
    /\ keyDestroys = 1

(* ------------------------------- C13 ----------------------------------- *)

\* C13: whenever the encryption stage fails, the file is left in its
\* pre-encryption state (full plaintext, original size) or is discarded;
\* it is never left partially written or replaced by ciphertext
C13_FailedEncryptLeavesPlaintext ==
    [][("encrypt" \notin errs /\ "encrypt" \in errs') =>
          \/ content' = content /\ Len(content') = Len(content)
          \/ names' = {}]_vars

(* ------------------------------- C14 ----------------------------------- *)

\* C14 as stated: a failure of the final (8th) time stamp assignment is
\* fatal; the pipeline stops there with an error and the removal stage is
\* not run
C14_FinalFailureIsFatal ==
    "metadata" \in errs =>
       /\ "remove" \notin Range(stageLog)
       /\ pc \notin {"wipeFreeSpace", "secureRemove", "rename", "truncate", "remove",
                     "removeOriginal", "completed"}
       /\ pc = "done" => result # "nil"

\* C14, amended: the final (8th) assignment is made only after all 7
\* randomizing attempts, whose failures are logged while the loop goes on
\* to the next attempt; wipeMetadata returns the final assignment's error,
\* and SecureDeleteAdvanced only logs it and goes on to the free-space wipe
\* and the removal stage, so that failure is never the pipeline's error
C14_FinalFailureIsLogged ==
    /\ [](/\ "metadata" \in errs =>
                /\ Count(status, "Metadata wiping failed") = 1
                /\ result \in {"none", "nil", StageError("remove")}
                /\ pc = "done" => "remove" \in Range(stageLog)
          /\ pc = "wipeFreeSpace" => i = MetaAttempts)
    /\ [][/\ ("metadata" \notin errs /\ "metadata" \in errs') =>
                /\ pc = "chtimes" /\ i = MetaAttempts
                /\ pc' = "wipeFreeSpace"
                /\ result' = "none"
                /\ status' = Append(status, "Metadata wiping failed")
          /\ Count(status', "Metadata change failed") >
                Count(status, "Metadata change failed") =>
                /\ pc' = "chtimes"
                /\ i' = i + 1
                /\ errs' = errs
                /\ status' = Append(status, "Metadata change failed")]_vars

C14_Witness ==
    /\ pc = "done"
    /\ result = "nil"
    /\ "metadata" \in errs
    /\ Count(status, "Metadata change failed") = 1
    /\ names = {}

(* ------------------------------- C15 ----------------------------------- *)

\* C15: a failure of the metadata scrubber or of the free-space wiper is
\* tolerated: it is recorded in the status, the pipeline goes on to the
\* removal stage, and the result is decided by the removal stage alone
\* (the free-space wiper never returns an error)
C15_MetadataFailureTolerated ==
    /\ "freespace" \notin errs
    /\ "metadata" \in errs =>
          /\ "Metadata wiping failed" \in Range(status)
          /\ pc \in {"wipeFreeSpace", "secureRemove", "rename", "truncate", "remove",
                     "removeOriginal", "completed", "failed", "done"}
          /\ pc \in {"failed", "done"} => "remove" \in Range(stageLog)
    /\ (pc = "done" /\ "remove" \in Range(stageLog)) =>
          /\ stageLog = StageOrder
          /\ result = (IF "remove" \in errs THEN StageError("remove") ELSE "nil")
    /\ (pc = "done" /\ "Metadata change failed" \in Range(status)) =>
          "remove" \in Range(stageLog)

C15_Witness ==
    /\ pc = "done"
    /\ "metadata" \in errs
    /\ "remove" \in errs
    /\ result = StageError("remove")
    /\ Last(stageLog) = "remove"

(* ------------------------------- C16 ----------------------------------- *)

\* C16: an overwrite run with fileSize = 0 performs no write call in any
\* pass and returns success
C16_EmptyFileNoWrites ==
    (fileSize = 0 /\ Len(patterns) = NumPasses) =>
       /\ pc \in {"randomPatterns", "overwritePass", "write", "passesDone", "wipeMetadata"}
       /\ chunks = <<>>
       /\ \A k \in 1..Len(passLog) : passLog[k] = <<k, <<>>>>
       /\ bytesWritten = 0 /\ pos = 0
       /\ shortWrite = -1
       /\ content = <<>> /\ mtime = "orig"
       /\ "overwrite" \notin errs
       /\ result = "none"
       /\ pc = "wipeMetadata" => Len(passLog) = NumPasses

C16_Witness ==
    /\ pc = "wipeMetadata"
    /\ fileSize = 0
    /\ Len(passLog) = NumPasses
    /\ passLog[NumPasses] = <<NumPasses, <<>>>>
    /\ result = "none"

(* ------------------------------- C17 ----------------------------------- *)

Succeeded(log) == {k \in 1..Len(log) : log[k][3]}

\* the state of the target file, from the steps completed on it
FileState ==
    IF Succeeded(Removes) # {} THEN <<"removed">>
    ELSE IF Succeeded(Truncates) # {} THEN <<"truncated">>
    ELSE IF "remove" \in Range(stageLog)
         THEN <<"renamed", Cardinality(Succeeded(Renames))>>
    ELSE IF passLog # <<>> THEN <<"pass", Len(passLog)>>
    ELSE IF encrypted # <<>> /\ "encrypt" \notin errs THEN <<"ciphertext">>
    ELSE <<"plaintext">>

\* the arrows of the chain plaintext -> ciphertext -> pass(1..35) ->
\* renamed(0..3) -> truncated -> removed
ChainArrow(a, b) ==
    \/ a = <<"plaintext">> /\ b = <<"ciphertext">>
    \/ a = <<"ciphertext">> /\ b = <<"pass", 1>>
    \/ a[1] = "pass" /\ b[1] = "pass" /\ b[2] = a[2] + 1 /\ b[2] <= NumPasses
    \/ a = <<"pass", NumPasses>> /\ b = <<"renamed", 0>>
    \/ a[1] = "renamed" /\ b[1] = "renamed" /\ b[2] = a[2] + 1 /\ b[2] <= RenameAttempts
    \/ a[1] = "renamed" /\ b = <<"truncated">>
    \/ a = <<"truncated">> /\ b = <<"removed">>

TruncateFailed == Truncates # <<>> /\ ~Last(Truncates)[3]

\* C17 as stated: the file moves only along consecutive arrows of the
\* chain; no state is skipped, in particular it is never removed without
\* having been truncated
C17_OnlyChainArrows ==
    [][FileState' # FileState => ChainArrow(FileState, FileState')]_vars

\* C17, amended: the file moves along the arrows of the chain, except that
\* it goes from renamed(n) straight to removed when the truncation was
\* tried and failed; it is never renamed before pass 35 has completed,
\* never removed before the truncation was tried, and no state is
\* revisited
C17_ChainWithFailedTruncate ==
    /\ [][FileState' # FileState =>
             \/ ChainArrow(FileState, FileState')
             \/ /\ FileState[1] = "renamed"
                /\ FileState' = <<"removed">>
                /\ TruncateFailed]_vars
    /\ []((FileState[1] \in {"renamed", "truncated", "removed"}) =>
             /\ Len(passLog) = NumPasses
             /\ \A k \in 1..NumPasses : SumLens(passLog[k][2]) = Len(encrypted))
    /\ [](FileState = <<"removed">> => Truncates # <<>>)

C17_Witness ==
    /\ FileState = <<"removed">>
    /\ TruncateFailed
    /\ Cardinality(Succeeded(Renames)) = 2
    /\ pc = "done"

(* ------------------------------- C18 ----------------------------------- *)

\* the passes after which the claim has a progress update
DuePasses == {1, 5, 10, 15, 20, 25, 30, 35}

Greatest(S) == CHOOSE x \in S : \A y \in S : y <= x

\* what the progress slot shows after n completed passes
Shown(n) ==
    IF n = 0 THEN <<>>
    ELSE LET d == Greatest({p \in DuePasses : p <= n})
         IN  <<(100 * d) \div 35, d>>

\* C18: during the overwrite the progress slot is updated after pass n
\* exactly when n is 1, 35 or a multiple of 5, with pass n and percent
\* floor(100*n/35); the percent never decreases and is 100 on the last
\* update, and the slot is cleared only after pass 35 has completed
C18_ProgressCadence ==
    /\ [](/\ pc \in {"overwritePass", "write"} =>
                (Len(passLog) = i /\ progress = Shown(i))
          /\ pc = "passesDone" => (Len(passLog) = 35 /\ progress = <<100, 35>>)
          /\ (progress = <<>> /\ passLog # <<>>) =>
                (Len(passLog) = 35 /\ pc \notin {"overwritePass", "write", "passesDone"}))
    /\ [][/\ Len(passLog') = Len(passLog) + 1 =>
                LET n == Len(passLog')
                IN  /\ progress' # progress <=> n \in DuePasses
                    /\ n \in DuePasses => progress' = <<(100 * n) \div 35, n>>
          /\ (progress # <<>> /\ progress' # <<>>) => progress'[1] >= progress[1]
          /\ (progress # <<>> /\ progress' = <<>>) => pc = "passesDone"]_vars

C18_Witness ==
    /\ pc = "passesDone"
    /\ progress = <<100, 35>>
    /\ Len(passLog) = 35

(* ------------------------------- C19 ----------------------------------- *)

\* the lines of worker w in a sequence of lines
LinesOf(w, text) == SelectSeq(text, LAMBDA l : l[1] = w)

\* the lines of worker w that are posted and not yet run
Posted(w) ==
    Cardinality({k \in 1..Len(uiQueue) :
                    uiQueue[k][1] = "append" /\ uiQueue[k][2][1] = w})

\* C19: while a wipe worker is running no line of it is lost or
\* overwritten and its lines are displayed in the order it generated them,
\* under any interleaving of the workers with the UI thread, a second wipe
\* confirmed while the first is still running included: the status label
\* holds every line of the worker that the UI thread has run, in order
C19_NoLineLost ==
    \A w \in Wipes :
       worker[w] = "running" =>
          LinesOf(w, label) = [k \in 1..(sent[w] - Posted(w)) |-> <<w, k>>]

(* ------------------------------- C20 ----------------------------------- *)

\* C20: in the pipeline every overwrite pass writes as many bytes as the
\* file has after the encryption step, plaintext length + nonce length +
\* tag length, which is more than the plaintext length and never zero, so
\* a pass covers every byte of the file and the overwrite never runs on an
\* empty file
C20_PassCoversCiphertext ==
    patterns # <<>> =>
       /\ "encrypt" \notin errs
       /\ Len(encrypted) = Len(originalData) + NonceSize + TagSize
       /\ fileSize = Len(originalData) + NonceSize + TagSize
       /\ fileSize > Len(originalData)
       /\ fileSize > 0
       /\ \A k \in 1..Len(passLog) :
             /\ SumLens(passLog[k][2]) = Len(originalData) + NonceSize + TagSize
             /\ passLog[k][2] # <<>>
       /\ pc \in {"randomPatterns", "overwritePass", "write", "passesDone"} =>
             Len(content) = fileSize

C20_Witness ==
    /\ pc = "passesDone"
    /\ originalData = <<>>
    /\ Len(passLog) = NumPasses
    /\ SumLens(passLog[NumPasses][2]) = NonceSize + TagSize
    /\ Len(content) = NonceSize + TagSize

==========================================================================
